---- MODULE Spec2Model ----
(***************************************************************************)
(* Model of hfDownloadQuantizeLLM.py: the pipeline driver main() and the   *)
(* external calls it makes (login, git lfs install, git clone, convert.py, *)
(* quantize).  Strings are sequences of one-character strings, so that     *)
(* split, join, lower, upper and the shell's word splitting are computed.  *)
(***************************************************************************)
EXTENDS Integers, Sequences, FiniteSets, TLC

\* ---------------------------------------------------------------- bounds
MaxUrlLen == 2
MaxMethodLen == 1
MaxRefLen == 5
PipeCap == 1
MaxChildLines == PipeCap + 1

\* ------------------------------------------------------------ characters
UrlAlphabet == {"B", "/", " "}
MethodAlphabet == {"q", " "}

SeqsUpTo(S, n) == UNION {[1..k -> S] : k \in 0..n}

Urls == SeqsUpTo(UrlAlphabet, MaxUrlLen)
Methods == SeqsUpTo(MethodAlphabet, MaxMethodLen)

\* a value no Python string equals: the variable is not assigned yet
Unset == <<"<unset>">>
NoToken == <<"<None>">>

\* ------------------------------------------------------ string functions
UpperLetters ==
  <<"A", "B", "C", "D", "E", "F", "G", "H", "I", "J", "K", "L", "M",
    "N", "O", "P", "Q", "R", "S", "T", "U", "V", "W", "X", "Y", "Z">>

LowerLetters ==
  <<"a", "b", "c", "d", "e", "f", "g", "h", "i", "j", "k", "l", "m",
    "n", "o", "p", "q", "r", "s", "t", "u", "v", "w", "x", "y", "z">>

LowerChar(c) ==
  IF \E i \in 1..26 : UpperLetters[i] = c
  THEN LowerLetters[CHOOSE i \in 1..26 : UpperLetters[i] = c]
  ELSE c

UpperChar(c) ==
  IF \E i \in 1..26 : LowerLetters[i] = c
  THEN UpperLetters[CHOOSE i \in 1..26 : LowerLetters[i] = c]
  ELSE c

Lower(s) == [i \in 1..Len(s) |-> LowerChar(s[i])]

Upper(s) == [i \in 1..Len(s) |-> UpperChar(s[i])]

RECURSIVE SplitRec(_, _, _, _)
SplitRec(s, sep, cur, acc) ==
  IF s = <<>> THEN Append(acc, cur)
  ELSE IF Head(s) = sep THEN SplitRec(Tail(s), sep, <<>>, Append(acc, cur))
  ELSE SplitRec(Tail(s), sep, Append(cur, Head(s)), acc)

\* str.split('/')
Split(s) == SplitRec(s, "/", <<>>, <<>>)

RECURSIVE Join(_)
\* '/'.join(parts)
Join(parts) ==
  IF parts = <<>> THEN <<>>
  ELSE IF Len(parts) = 1 THEN parts[1]
  ELSE parts[1] \o <<"/">> \o Join(Tail(parts))

\* parts[-2:]
LastTwo(parts) ==
  SubSeq(parts, IF Len(parts) > 2 THEN Len(parts) - 1 ELSE 1, Len(parts))

\* parts[-1]
Last(parts) == parts[Len(parts)]

\* parts[:2] in place of parts[-2:]
extract_model_id_first_two(repository_url) ==
  LET parts == Split(repository_url)
  IN Join(SubSeq(parts, 1, IF Len(parts) > 2 THEN 2 ELSE Len(parts)))

extract_model_id(repository_url) == Join(LastTwo(Split(repository_url)))

ModelNameOf(model_id) == Last(Split(model_id))

Fp16Suffix == <<".", "f", "p", "1", "6", ".", "b", "i", "n">>
GgufSuffix == <<".", "g", "g", "u", "f">>

\* the directory part lower-cased too
Fp16PathOf_lower_dir(name) == Lower(name) \o <<"/">> \o Lower(name) \o Fp16Suffix

Fp16PathOf(name) == name \o <<"/">> \o Lower(name) \o Fp16Suffix

QtypeOf(name, m) == name \o <<"/">> \o Lower(name) \o <<".">> \o Upper(m) \o GgufSuffix

QuantizeProgram ==
  <<".", "/", "l", "l", "a", "m", "a", ".", "c", "p", "p", "/",
    "q", "u", "a", "n", "t", "i", "z", "e">>

QuantizeCommandOf(fp16, qt, m) ==
  QuantizeProgram \o <<" ">> \o fp16 \o <<" ">> \o qt \o <<" ">> \o m

RECURSIVE WordsRec(_, _, _)
WordsRec(s, cur, acc) ==
  IF s = <<>> THEN (IF cur = <<>> THEN acc ELSE Append(acc, cur))
  ELSE IF Head(s) = " "
       THEN WordsRec(Tail(s), <<>>, IF cur = <<>> THEN acc ELSE Append(acc, cur))
       ELSE WordsRec(Tail(s), Append(cur, Head(s)), acc)

\* the argument vector /bin/sh -c builds from an unquoted command line
ShellWords(cmd) == WordsRec(cmd, <<>>, <<>>)


\* --------------------------------------------------------------- catalog
QUANTIZATION_METHODS ==
  << <<"q2_k", "Uses Q4_K for the attention.vw and feed_forward.w2 tensors, Q2_K for the other tensors.">>,
     <<"q3_k_l", "Uses Q5_K for the attention.wv, attention.wo, and feed_forward.w2 tensors, else Q3_K">>,
     <<"q3_k_m", "Uses Q4_K for the attention.wv, attention.wo, and feed_forward.w2 tensors, else Q3_K">>,
     <<"q3_k_s", "Uses Q3_K for all tensors">>,
     <<"q4_0", "Original quant method, 4-bit.">>,
     <<"q4_1", "Higher accuracy than q4_0 but not as high as q5_0. However has quicker inference than q5 models.">>,
     <<"q4_k_m", "Uses Q6_K for half of the attention.wv and feed_forward.w2 tensors, else Q4_K">>,
     <<"q4_k_s", "Uses Q4_K for all tensors">>,
     <<"q5_0", "Higher accuracy, higher resource usage and slower inference.">>,
     <<"q5_1", "Even higher accuracy, resource usage and slower inference.">>,
     <<"q5_k_m", "Uses Q6_K for half of the attention.wv and feed_forward.w2 tensors, else Q5_K">>,
     <<"q5_k_s", "Uses Q5_K for all tensors">>,
     <<"q6_k", "Uses Q8_K for all tensors">>,
     <<"q8_0", "Almost indistinguishable from float16. High resource use and slow. Not recommended for most users.">> >>

\* print(f"{key}: {description}")
CatalogLine(entry) == <<"catalog", entry[1], entry[2]>>

\* ----------------------------------------------------------------- state
VARIABLES
  pc,               \* position of main()
  argv,             \* sys.argv[1:]
  HF_TOKEN,         \* os.getenv('HF_TOKEN')
  repository_url, model_id, MODEL_NAME, fp16_output_file,
  method, qtype, quantize_command,
  catIdx,           \* position of the loop over QUANTIZATION_METHODS.items()
  out,              \* lines printed so far
  calls,            \* number of attempts of each external call
  stages,           \* stages of main() in the order they were started
  alive,            \* child processes that have been started and not yet terminated
  rc,               \* exit status of each external program ("none": not known)
  convArgv,         \* argument vector handed to the conversion program
  quantArgv,        \* argument vector the shell hands to the quantization program
  script,           \* streams the clone child still writes a line to, in its order
  outBuf, errBuf,   \* lines held in the stdout / stderr pipe
  crash             \* exception that escaped main() ("none": no exception)

strvars == <<repository_url, model_id, MODEL_NAME, fp16_output_file, method, qtype, quantize_command>>
pipevars == <<script, outBuf, errBuf>>
procvars == <<calls, alive, rc, convArgv, quantArgv>>
vars == <<pc, argv, HF_TOKEN, strvars, catIdx, out, calls, stages, alive, rc,
          convArgv, quantArgv, pipevars, crash>>

\* what a clone child does: a finite sequence of line writes, then exit
ChildScripts == SeqsUpTo({"stdout", "stderr"}, MaxChildLines)

Programs == {"lfs", "clone", "convert", "quantize"}

Argvs ==
  {<<>>} \cup {<<u>> : u \in Urls} \cup {<<u, m>> : u \in Urls, m \in Methods}

Init ==
  /\ pc = "login"
  /\ argv \in Argvs
  /\ HF_TOKEN \in {NoToken, <<>>, <<"t">>}
  /\ repository_url = Unset /\ model_id = Unset /\ MODEL_NAME = Unset
  /\ fp16_output_file = Unset /\ method = Unset /\ qtype = Unset
  /\ quantize_command = Unset
  /\ catIdx = 0
  /\ out = <<>>
  /\ calls = [c \in Programs \cup {"login"} |-> 0]
  /\ stages = <<>>
  /\ alive = {}
  /\ rc = [p \in Programs |-> "none"]
  /\ convArgv = <<>>
  /\ quantArgv = <<>>
  /\ script = <<>> /\ outBuf = 0 /\ errBuf = 0
  /\ crash = "none"

Truthy(s) == s # NoToken /\ Len(s) > 0

\* ---------------------------------------------------------------- hf_login
LoginNoToken ==
  /\ pc = "login" /\ ~Truthy(HF_TOKEN)
  /\ out' = Append(out, <<"Hugging Face token not found in environment variables.">>)
  /\ stages' = Append(stages, "login")
  /\ pc' = "get_url"
  /\ UNCHANGED <<argv, HF_TOKEN, strvars, catIdx, procvars, pipevars, crash>>

LoginWithToken ==
  /\ pc = "login" /\ Truthy(HF_TOKEN)
  /\ calls' = [calls EXCEPT !["login"] = @ + 1]
  /\ \E accepted \in BOOLEAN :
       out' = Append(out, IF accepted THEN <<"Logged in to Hugging Face successfully.">>
                                      ELSE <<"Failed to log in to Hugging Face">>)
  /\ stages' = Append(stages, "login")
  /\ pc' = "get_url"
  /\ UNCHANGED <<argv, HF_TOKEN, strvars, catIdx, alive, rc, convArgv, quantArgv, pipevars, crash>>

\* ------------------------------------------------- main: repository reference
UrlFromArgv ==
  /\ pc = "get_url" /\ Len(argv) > 0
  /\ repository_url' = argv[1]
  /\ stages' = Append(stages, "url")
  /\ pc' = "derive"
  /\ UNCHANGED <<argv, HF_TOKEN, model_id, MODEL_NAME, fp16_output_file, method, qtype,
                 quantize_command, catIdx, out, procvars, pipevars, crash>>

UrlFromPrompt ==
  /\ pc = "get_url" /\ Len(argv) = 0
  /\ \E s \in Urls : repository_url' = s
  /\ out' = Append(out, <<"Enter the Git repository URL: ">>)
  /\ stages' = Append(stages, "url")
  /\ pc' = "derive"
  /\ UNCHANGED <<argv, HF_TOKEN, model_id, MODEL_NAME, fp16_output_file, method, qtype,
                 quantize_command, catIdx, procvars, pipevars, crash>>

\* input() raises EOFError: nothing in main() catches it
UrlPromptFails ==
  /\ pc = "get_url" /\ Len(argv) = 0
  /\ out' = Append(out, <<"Enter the Git repository URL: ">>)
  /\ stages' = Append(stages, "url")
  /\ crash' = "prompt"
  /\ pc' = "crashed"
  /\ UNCHANGED <<argv, HF_TOKEN, strvars, catIdx, procvars, pipevars>>

Derive ==
  /\ pc = "derive"
  /\ model_id' = extract_model_id(repository_url)
  /\ MODEL_NAME' = ModelNameOf(model_id')
  /\ fp16_output_file' = Fp16PathOf(MODEL_NAME')
  /\ stages' = Append(stages, "derive")
  /\ pc' = "lfs"
  /\ UNCHANGED <<argv, HF_TOKEN, repository_url, method, qtype, quantize_command,
                 catIdx, out, procvars, pipevars, crash>>

\* ------------------------------------------------------- clone_repository
\* subprocess.run(["git", "lfs", "install"], check=True, ...) starts the child
LfsSpawn ==
  /\ pc = "lfs"
  /\ calls' = [calls EXCEPT !["lfs"] = @ + 1]
  /\ alive' = alive \cup {"lfs"}
  /\ stages' = Append(stages, "acquire")
  /\ pc' = "lfs_wait"
  /\ UNCHANGED <<argv, HF_TOKEN, strvars, catIdx, out, rc, convArgv, quantArgv, pipevars, crash>>

\* git cannot be launched: OSError, caught by `except Exception`
LfsLaunchFails ==
  /\ pc = "lfs"
  /\ calls' = [calls EXCEPT !["lfs"] = @ + 1]
  /\ rc' = [rc EXCEPT !["lfs"] = "nolaunch"]
  /\ out' = Append(out, <<"An error occurred">>)
  /\ stages' = Append(stages, "acquire")
  /\ pc' = "convert"
  /\ UNCHANGED <<argv, HF_TOKEN, strvars, catIdx, alive, convArgv, quantArgv, pipevars, crash>>

LfsExitZero ==
  /\ pc = "lfs_wait"
  /\ alive' = alive \ {"lfs"}
  /\ rc' = [rc EXCEPT !["lfs"] = "zero"]
  /\ out' = Append(out, <<"Git LFS initialized.">>)
  /\ pc' = "clone"
  /\ UNCHANGED <<argv, HF_TOKEN, strvars, catIdx, calls, stages, convArgv, quantArgv, pipevars, crash>>

\* without check=True a non-zero exit goes unnoticed and the clone is started
LfsExitNonZero_unchecked ==
  /\ pc = "lfs_wait"
  /\ alive' = alive \ {"lfs"}
  /\ rc' = [rc EXCEPT !["lfs"] = "nonzero"]
  /\ out' = Append(out, <<"Git LFS initialized.">>)
  /\ pc' = "clone"
  /\ UNCHANGED <<argv, HF_TOKEN, strvars, catIdx, calls, stages, convArgv, quantArgv, pipevars, crash>>

\* check=True raises CalledProcessError, caught by the first handler
LfsExitNonZero ==
  /\ pc = "lfs_wait"
  /\ alive' = alive \ {"lfs"}
  /\ rc' = [rc EXCEPT !["lfs"] = "nonzero"]
  /\ out' = out \o << <<"Error during Git LFS initialization:">>, <<"e.stderr">> >>
  /\ pc' = "convert"
  /\ UNCHANGED <<argv, HF_TOKEN, strvars, catIdx, calls, stages, convArgv, quantArgv, pipevars, crash>>

\* subprocess.Popen(["git", "clone", url], stdout=PIPE, stderr=PIPE, text=True)
CloneSpawn ==
  /\ pc = "clone"
  /\ calls' = [calls EXCEPT !["clone"] = @ + 1]
  /\ alive' = alive \cup {"clone"}
  /\ \E w \in ChildScripts : script' = w
  /\ outBuf' = 0 /\ errBuf' = 0
  /\ pc' = "clone_loop"
  /\ UNCHANGED <<argv, HF_TOKEN, strvars, catIdx, out, stages, rc, convArgv, quantArgv, crash>>

CloneLaunchFails ==
  /\ pc = "clone"
  /\ calls' = [calls EXCEPT !["clone"] = @ + 1]
  /\ rc' = [rc EXCEPT !["clone"] = "nolaunch"]
  /\ out' = Append(out, <<"An error occurred">>)
  /\ pc' = "convert"
  /\ UNCHANGED <<argv, HF_TOKEN, strvars, catIdx, stages, alive, convArgv, quantArgv, pipevars, crash>>

\* the child writes its next line to its stdout pipe; it blocks while that pipe is full
ChildWriteOut ==
  /\ "clone" \in alive /\ script # <<>> /\ Head(script) = "stdout"
  /\ outBuf < PipeCap
  /\ script' = Tail(script)
  /\ outBuf' = outBuf + 1
  /\ UNCHANGED <<pc, argv, HF_TOKEN, strvars, catIdx, out, stages, procvars, errBuf, crash>>

ChildWriteErr ==
  /\ "clone" \in alive /\ script # <<>> /\ Head(script) = "stderr"
  /\ errBuf < PipeCap
  /\ script' = Tail(script)
  /\ errBuf' = errBuf + 1
  /\ UNCHANGED <<pc, argv, HF_TOKEN, strvars, catIdx, out, stages, procvars, outBuf, crash>>

\* the child has written everything and exits, closing its ends of the pipes
ChildExit ==
  /\ "clone" \in alive /\ script = <<>>
  /\ alive' = alive \ {"clone"}
  /\ \E r \in {"zero", "nonzero"} : rc' = [rc EXCEPT !["clone"] = r]
  /\ UNCHANGED <<pc, argv, HF_TOKEN, strvars, catIdx, out, stages, calls, convArgv, quantArgv, pipevars, crash>>

\* for line in proc.stderr: print(line, end='')
ParentReadErr ==
  /\ pc = "clone_loop" /\ errBuf > 0
  /\ errBuf' = errBuf - 1
  /\ out' = Append(out, <<"clone progress line">>)
  /\ UNCHANGED <<pc, argv, HF_TOKEN, strvars, catIdx, stages, procvars, script, outBuf, crash>>

\* leaving the loop as soon as no line is buffered, without waiting for the child
ParentEof_no_wait ==
  /\ pc = "clone_loop" /\ errBuf = 0
  /\ outBuf' = 0
  /\ pc' = "clone_status"
  /\ UNCHANGED <<argv, HF_TOKEN, strvars, catIdx, out, stages, procvars, script, errBuf, crash>>

\* end-of-file on proc.stderr: leave the loop; Popen.__exit__ closes stdout and waits
ParentEof ==
  /\ pc = "clone_loop" /\ errBuf = 0 /\ "clone" \notin alive
  /\ outBuf' = 0
  /\ pc' = "clone_status"
  /\ UNCHANGED <<argv, HF_TOKEN, strvars, catIdx, out, stages, procvars, script, errBuf, crash>>

CloneStatus ==
  /\ pc = "clone_status"
  /\ out' = Append(out, IF rc["clone"] = "zero"
                        THEN <<"Repository cloned successfully.">>
                        ELSE <<"Error occurred while cloning the repository.">>)
  /\ pc' = "convert"
  /\ UNCHANGED <<argv, HF_TOKEN, strvars, catIdx, stages, procvars, pipevars, crash>>

\* ------------------------------------------------- convert_model_to_fp16
ConvertCommand(model_name, outfile) ==
  << <<"p", "y", "t", "h", "o", "n">>,
     <<"l", "l", "a", "m", "a", ".", "c", "p", "p", "/", "c", "o", "n", "v", "e", "r", "t", ".", "p", "y">>,
     model_name,
     <<"-", "-", "o", "u", "t", "t", "y", "p", "e">>,
     <<"f", "1", "6">>,
     <<"-", "-", "o", "u", "t", "f", "i", "l", "e">>,
     outfile >>

\* subprocess.run(command, check=True, text=True, capture_output=True) starts the child
ConvertSpawn ==
  /\ pc = "convert"
  /\ calls' = [calls EXCEPT !["convert"] = @ + 1]
  /\ convArgv' = ConvertCommand(MODEL_NAME, fp16_output_file)
  /\ alive' = alive \cup {"convert"}
  /\ stages' = Append(stages, "convert")
  /\ pc' = "convert_wait"
  /\ UNCHANGED <<argv, HF_TOKEN, strvars, catIdx, out, rc, quantArgv, pipevars, crash>>

\* "python" cannot be launched: OSError is not a CalledProcessError, and
\* neither convert_model_to_fp16 nor main() has another handler
ConvertLaunchFails ==
  /\ pc = "convert"
  /\ calls' = [calls EXCEPT !["convert"] = @ + 1]
  /\ convArgv' = ConvertCommand(MODEL_NAME, fp16_output_file)
  /\ rc' = [rc EXCEPT !["convert"] = "nolaunch"]
  /\ stages' = Append(stages, "convert")
  /\ crash' = "convert"
  /\ pc' = "crashed"
  /\ UNCHANGED <<argv, HF_TOKEN, strvars, catIdx, out, alive, quantArgv, pipevars>>

ConvertExitZero ==
  /\ pc = "convert_wait"
  /\ alive' = alive \ {"convert"}
  /\ rc' = [rc EXCEPT !["convert"] = "zero"]
  /\ out' = out \o << <<"Model conversion to fp16 successful. Output:">>, <<"result.stdout">> >>
  /\ pc' = "method"
  /\ UNCHANGED <<argv, HF_TOKEN, strvars, catIdx, calls, stages, convArgv, quantArgv, pipevars, crash>>

\* the failure handler returning from main() instead of going on
ConvertExitNonZero_halts ==
  /\ pc = "convert_wait"
  /\ alive' = alive \ {"convert"}
  /\ rc' = [rc EXCEPT !["convert"] = "nonzero"]
  /\ out' = out \o << <<"An error occurred during model conversion:">>, <<"e.stderr">> >>
  /\ pc' = "done"
  /\ UNCHANGED <<argv, HF_TOKEN, strvars, catIdx, calls, stages, convArgv, quantArgv, pipevars, crash>>

ConvertExitNonZero ==
  /\ pc = "convert_wait"
  /\ alive' = alive \ {"convert"}
  /\ rc' = [rc EXCEPT !["convert"] = "nonzero"]
  /\ out' = out \o << <<"An error occurred during model conversion:">>, <<"e.stderr">> >>
  /\ pc' = "method"
  /\ UNCHANGED <<argv, HF_TOKEN, strvars, catIdx, calls, stages, convArgv, quantArgv, pipevars, crash>>

\* ----------------------------------------------- main: quantization method
MethodFromArgv ==
  /\ pc = "method" /\ Len(argv) > 1
  /\ method' = argv[2]
  /\ stages' = Append(stages, "method")
  /\ pc' = "prepare"
  /\ UNCHANGED <<argv, HF_TOKEN, repository_url, model_id, MODEL_NAME, fp16_output_file,
                 qtype, quantize_command, catIdx, out, procvars, pipevars, crash>>

CatalogHeader ==
  /\ pc = "method" /\ ~(Len(argv) > 1)
  /\ out' = Append(out, <<"Please choose a quantization method from the following options:">>)
  /\ catIdx' = 1
  /\ stages' = Append(stages, "method")
  /\ pc' = "catalog"
  /\ UNCHANGED <<argv, HF_TOKEN, strvars, procvars, pipevars, crash>>

\* the catalog walked from its last entry to its first
CatalogStep_reversed ==
  /\ pc = "catalog" /\ catIdx <= Len(QUANTIZATION_METHODS)
  /\ out' = Append(out, CatalogLine(QUANTIZATION_METHODS[Len(QUANTIZATION_METHODS) + 1 - catIdx]))
  /\ catIdx' = catIdx + 1
  /\ UNCHANGED <<pc, argv, HF_TOKEN, strvars, stages, procvars, pipevars, crash>>

\* one iteration of: for key, description in QUANTIZATION_METHODS.items()
CatalogStep ==
  /\ pc = "catalog" /\ catIdx <= Len(QUANTIZATION_METHODS)
  /\ out' = Append(out, CatalogLine(QUANTIZATION_METHODS[catIdx]))
  /\ catIdx' = catIdx + 1
  /\ UNCHANGED <<pc, argv, HF_TOKEN, strvars, stages, procvars, pipevars, crash>>

MethodFromPrompt ==
  /\ pc = "catalog" /\ catIdx > Len(QUANTIZATION_METHODS)
  /\ \E m \in Methods : method' = m
  /\ out' = Append(out, <<"Enter your chosen quantization method: ">>)
  /\ pc' = "prepare"
  /\ UNCHANGED <<argv, HF_TOKEN, repository_url, model_id, MODEL_NAME, fp16_output_file,
                 qtype, quantize_command, catIdx, stages, procvars, pipevars, crash>>

MethodPromptFails ==
  /\ pc = "catalog" /\ catIdx > Len(QUANTIZATION_METHODS)
  /\ out' = Append(out, <<"Enter your chosen quantization method: ">>)
  /\ crash' = "prompt"
  /\ pc' = "crashed"
  /\ UNCHANGED <<argv, HF_TOKEN, strvars, catIdx, stages, procvars, pipevars>>

\* ------------------------------------------------------ main: quantization
Prepare ==
  /\ pc = "prepare"
  /\ qtype' = QtypeOf(MODEL_NAME, method)
  /\ quantize_command' = QuantizeCommandOf(fp16_output_file, qtype', method)
  /\ pc' = "quantize"
  /\ UNCHANGED <<argv, HF_TOKEN, repository_url, model_id, MODEL_NAME, fp16_output_file,
                 method, catIdx, out, stages, procvars, pipevars, crash>>

\* subprocess.run(quantize_command, shell=True, check=True): /bin/sh -c splits
\* the command line into words and starts the program with them
QuantizeSpawn ==
  /\ pc = "quantize"
  /\ calls' = [calls EXCEPT !["quantize"] = @ + 1]
  /\ quantArgv' = ShellWords(quantize_command)
  /\ alive' = alive \cup {"quantize"}
  /\ stages' = Append(stages, "quantize")
  /\ pc' = "quantize_wait"
  /\ UNCHANGED <<argv, HF_TOKEN, strvars, catIdx, out, rc, convArgv, pipevars, crash>>

QuantizeExitZero ==
  /\ pc = "quantize_wait"
  /\ alive' = alive \ {"quantize"}
  /\ rc' = [rc EXCEPT !["quantize"] = "zero"]
  /\ out' = Append(out, <<"Quantization completed successfully.">>)
  /\ pc' = "done"
  /\ UNCHANGED <<argv, HF_TOKEN, strvars, catIdx, calls, stages, convArgv, quantArgv, pipevars, crash>>

\* a failed quantization tried a second time
QuantizeExitNonZero_retries ==
  /\ pc = "quantize_wait"
  /\ alive' = alive \ {"quantize"}
  /\ rc' = [rc EXCEPT !["quantize"] = "nonzero"]
  /\ out' = Append(out, <<"An error occurred during quantization">>)
  /\ pc' = IF calls["quantize"] < 2 THEN "quantize" ELSE "done"
  /\ UNCHANGED <<argv, HF_TOKEN, strvars, catIdx, calls, stages, convArgv, quantArgv, pipevars, crash>>

\* a non-zero status of the shell, 127 when it cannot start the program
QuantizeExitNonZero ==
  /\ pc = "quantize_wait"
  /\ alive' = alive \ {"quantize"}
  /\ rc' = [rc EXCEPT !["quantize"] = "nonzero"]
  /\ out' = Append(out, <<"An error occurred during quantization">>)
  /\ pc' = "done"
  /\ UNCHANGED <<argv, HF_TOKEN, strvars, catIdx, calls, stages, convArgv, quantArgv, pipevars, crash>>

\* ----------------------------------------------------------- specification
Next ==
  \/ LoginNoToken \/ LoginWithToken
  \/ UrlFromArgv \/ UrlFromPrompt \/ UrlPromptFails
  \/ Derive
  \/ LfsSpawn \/ LfsLaunchFails \/ LfsExitZero \/ LfsExitNonZero
  \/ CloneSpawn \/ CloneLaunchFails
  \/ ChildWriteOut \/ ChildWriteErr \/ ChildExit
  \/ ParentReadErr \/ ParentEof \/ CloneStatus
  \/ ConvertSpawn \/ ConvertLaunchFails \/ ConvertExitZero \/ ConvertExitNonZero
  \/ MethodFromArgv \/ CatalogHeader \/ CatalogStep \/ MethodFromPrompt \/ MethodPromptFails
  \/ Prepare
  \/ QuantizeSpawn \/ QuantizeExitZero \/ QuantizeExitNonZero

Spec == Init /\ [][Next]_vars

\* main() up to the derivation of the identifier, the name and the
\* intermediate path, for longer repository references
InitRef ==
  /\ pc = "login"
  /\ argv \in {<<u>> : u \in SeqsUpTo(UrlAlphabet, MaxRefLen)}
  /\ HF_TOKEN \in {NoToken, <<>>, <<"t">>}
  /\ repository_url = Unset /\ model_id = Unset /\ MODEL_NAME = Unset
  /\ fp16_output_file = Unset /\ method = Unset /\ qtype = Unset
  /\ quantize_command = Unset
  /\ catIdx = 0
  /\ out = <<>>
  /\ calls = [c \in Programs \cup {"login"} |-> 0]
  /\ stages = <<>>
  /\ alive = {}
  /\ rc = [p \in Programs |-> "none"]
  /\ convArgv = <<>>
  /\ quantArgv = <<>>
  /\ script = <<>> /\ outBuf = 0 /\ errBuf = 0
  /\ crash = "none"

NextRef == LoginNoToken \/ LoginWithToken \/ UrlFromArgv \/ Derive

SpecRef == InitRef /\ [][NextRef]_vars

\* ================================================================ claims
Terminated == pc \in {"done", "crashed"}

Printed(line) == \E i \in 1..Len(out) : out[i] = line

Started(st) == \E i \in 1..Len(stages) : stages[i] = st

NoSlash(s) == \A i \in 1..Len(s) : s[i] # "/"

EndsWith(s, t) ==
  /\ Len(t) <= Len(s)
  /\ SubSeq(s, Len(s) - Len(t) + 1, Len(s)) = t

\* t is s with every upper-case letter replaced by its lower-case letter
IsLowerOf(t, s) ==
  /\ Len(t) = Len(s)
  /\ \A i \in 1..Len(s) :
       \/ \E j \in 1..26 : s[i] = UpperLetters[j] /\ t[i] = LowerLetters[j]
       \/ (\A j \in 1..26 : s[i] # UpperLetters[j]) /\ t[i] = s[i]

\* t is s with every lower-case letter replaced by its upper-case letter
IsUpperOf(t, s) ==
  /\ Len(t) = Len(s)
  /\ \A i \in 1..Len(s) :
       \/ \E j \in 1..26 : s[i] = LowerLetters[j] /\ t[i] = UpperLetters[j]
       \/ (\A j \in 1..26 : s[i] # LowerLetters[j]) /\ t[i] = s[i]

\* ---------------------------------------------------------------------
\* C8: for a repository reference with at least two '/'-delimited segments
\* (one that contains a '/'), the identifier is exactly the last two
\* segments joined by '/', and the Model Name is the last segment of the
\* reference: the text after its final '/', empty when it ends in '/'.
C8_IdentifierAndName ==
  (model_id # Unset /\ ~NoSlash(repository_url)) =>
    LET n == Len(repository_url)
        k == Len(model_id)
        m == Len(MODEL_NAME)
    IN /\ EndsWith(repository_url, model_id)
       /\ k < n => repository_url[n - k] = "/"
       /\ Cardinality({i \in 1..k : model_id[i] = "/"}) = 1
       /\ NoSlash(MODEL_NAME)
       /\ EndsWith(repository_url, MODEL_NAME)
       /\ m < n /\ repository_url[n - m] = "/"
       /\ EndsWith(model_id, <<"/">> \o MODEL_NAME)

C8_Witness ==
  /\ repository_url = <<" ", "/", "B", "/">>
  /\ model_id = <<"B", "/">>
  /\ MODEL_NAME = <<>>

\* ---------------------------------------------------------------------
\* C7: the intermediate path is N/lower(N).fp16.bin and the final path is
\* N/lower(N).upper(m).gguf; the directory part and the converter's model
\* argument are N in its original case.
C7_ArtifactPaths ==
  /\ fp16_output_file # Unset =>
       LET n == Len(MODEL_NAME) IN
         /\ Len(fp16_output_file) = 2 * n + 10
         /\ SubSeq(fp16_output_file, 1, n) = MODEL_NAME
         /\ fp16_output_file[n + 1] = "/"
         /\ IsLowerOf(SubSeq(fp16_output_file, n + 2, 2 * n + 1), MODEL_NAME)
         /\ SubSeq(fp16_output_file, 2 * n + 2, 2 * n + 10)
              = <<".", "f", "p", "1", "6", ".", "b", "i", "n">>
  /\ qtype # Unset =>
       LET n == Len(MODEL_NAME)
           k == Len(method)
       IN
         /\ Len(qtype) = 2 * n + k + 7
         /\ SubSeq(qtype, 1, n) = MODEL_NAME
         /\ qtype[n + 1] = "/"
         /\ IsLowerOf(SubSeq(qtype, n + 2, 2 * n + 1), MODEL_NAME)
         /\ qtype[2 * n + 2] = "."
         /\ IsUpperOf(SubSeq(qtype, 2 * n + 3, 2 * n + 2 + k), method)
         /\ SubSeq(qtype, 2 * n + 3 + k, 2 * n + k + 7) = <<".", "g", "g", "u", "f">>
  /\ calls["convert"] = 1 =>
       /\ Len(convArgv) = 7
       /\ convArgv[3] = MODEL_NAME
       /\ convArgv[7] = fp16_output_file
  /\ Fp16PathOf(<<"F", "o", "o", "-", "7", "B">>)
       = <<"F", "o", "o", "-", "7", "B", "/", "f", "o", "o", "-", "7", "b",
           ".", "f", "p", "1", "6", ".", "b", "i", "n">>
  /\ QtypeOf(<<"F", "o", "o", "-", "7", "B">>, <<"q", "4", "_", "k", "_", "m">>)
       = <<"F", "o", "o", "-", "7", "B", "/", "f", "o", "o", "-", "7", "b",
           ".", "Q", "4", "_", "K", "_", "M", ".", "g", "g", "u", "f">>

C7_Witness ==
  /\ MODEL_NAME = <<"B", " ">>
  /\ method = <<"q">>
  /\ fp16_output_file = <<"B", " ", "/", "b", " ", ".", "f", "p", "1", "6", ".", "b", "i", "n">>
  /\ qtype = <<"B", " ", "/", "b", " ", ".", "Q", ".", "g", "g", "u", "f">>
  /\ calls["convert"] = 1

\* ---------------------------------------------------------------------
\* C6: the quantization program is started with exactly three positional
\* arguments, the intermediate path, the final path and the method as
\* supplied, whatever strings the reference and the method are.
C6_ThreePositionalArguments ==
  calls["quantize"] = 1 =>
    quantArgv = <<QuantizeProgram, fp16_output_file, qtype, method>>

C3_ExactlyOnce ==
  /\ \A c \in DOMAIN calls : calls[c] <= 1
  /\ pc = "done" =>
       /\ \A p \in Programs : calls[p] = 1
       /\ Truthy(HF_TOKEN) => calls["login"] = 1

\* C3 as amended: every external call is attempted at most once in a run
\* (never retried); the login is attempted exactly when HF_TOKEN is
\* non-empty and git clone exactly when `git lfs install` exited zero, so
\* both can be skipped; in a run that reaches its final message the LFS
\* initialization, the conversion and the quantization have each been
\* attempted exactly once.
C3_AtMostOnce ==
  /\ \A c \in DOMAIN calls : calls[c] <= 1
  /\ calls["login"] = 1 => Truthy(HF_TOKEN)
  /\ calls["clone"] = 1 => rc["lfs"] = "zero"
  /\ pc = "done" =>
       /\ calls["lfs"] = 1 /\ calls["convert"] = 1 /\ calls["quantize"] = 1
       /\ calls["login"] = 1 <=> Truthy(HF_TOKEN)
       /\ calls["clone"] = 1 <=> rc["lfs"] = "zero"

C3_Witness ==
  /\ pc = "done"
  /\ calls["login"] = 0
  /\ rc["lfs"] = "nonzero" /\ calls["clone"] = 0
  /\ rc["convert"] = "nonzero" /\ rc["quantize"] = "nonzero"
  /\ calls["quantize"] = 1

\* ---------------------------------------------------------------------
\* C4: unless a prompt read fails, no exception escapes main(), however a
\* stage fails (non-zero exit or failure to launch), and a finished run has
\* printed exactly one of the two final quantization messages, as its last
\* line.
FinalMessages ==
  { <<"Quantization completed successfully.">>,
    <<"An error occurred during quantization">> }

C4_NoAbnormalTermination ==
  /\ crash \in {"none", "prompt"}
  /\ pc = "done" =>
       /\ Len(out) > 0 /\ out[Len(out)] \in FinalMessages
       /\ Cardinality({i \in 1..Len(out) : out[i] \in FinalMessages}) = 1

\* ---------------------------------------------------------------------
\* C5: the stages start in the one fixed order, each with the values the
\* earlier ones computed; at most one child process is alive at any time
\* and main() is then waiting for it inside the stage that started it; the
\* catalog and the method prompt are not printed before the converter has
\* returned.
StageOrder == <<"login", "url", "derive", "acquire", "convert", "method", "quantize">>

WaitingFor(child) ==
  CASE child = "lfs" -> pc = "lfs_wait" /\ stages[Len(stages)] = "acquire"
    [] child = "clone" -> pc = "clone_loop" /\ stages[Len(stages)] = "acquire"
    [] child = "convert" -> pc = "convert_wait" /\ stages[Len(stages)] = "convert"
    [] child = "quantize" -> pc = "quantize_wait" /\ stages[Len(stages)] = "quantize"

C5_StrictSequence ==
  /\ Len(stages) <= Len(StageOrder)
  /\ stages = SubSeq(StageOrder, 1, Len(stages))
  /\ Started("derive") => repository_url # Unset
  /\ Started("acquire") => fp16_output_file # Unset /\ MODEL_NAME # Unset
  /\ Started("convert") => rc["lfs"] # "none" /\ (calls["clone"] = 1 => rc["clone"] # "none")
  /\ Started("quantize") => method # Unset /\ rc["convert"] \in {"zero", "nonzero"}
  /\ Cardinality(alive) <= 1
  /\ \A child \in alive : WaitingFor(child)
  /\ (\E i \in 1..Len(out) :
        \/ out[i] = <<"Please choose a quantization method from the following options:">>
        \/ out[i] = <<"Enter your chosen quantization method: ">>
        \/ out[i][1] = "catalog")
       => /\ rc["convert"] \in {"zero", "nonzero"}
          /\ "convert" \notin alive
          /\ Started("convert")

C5_Witness ==
  /\ pc = "quantize_wait"
  /\ alive = {"quantize"}
  /\ stages = StageOrder
  /\ calls["clone"] = 1 /\ rc["clone"] = "nonzero"
  /\ Printed(<<"Enter your chosen quantization method: ">>)

\* ---------------------------------------------------------------------
\* C9: with a second command-line argument that argument is the method
\* and neither the catalog nor the method prompt is shown; without it the
\* 14 catalog entries are printed as `<code>: <description>` lines in the
\* catalog's order, all before the single method prompt; either way the
\* string goes unchecked into the quantizer's command line.
MethodPrompt == <<"Enter your chosen quantization method: ">>
CatalogHeaderLine == <<"Please choose a quantization method from the following options:">>

C9_MethodResolution ==
  LET catPos == {j \in 1..Len(out) : out[j][1] = "catalog"}
      promptPos == {j \in 1..Len(out) : out[j] = MethodPrompt}
  IN /\ Len(QUANTIZATION_METHODS) = 14
     /\ Len(argv) > 1 =>
          /\ catPos = {} /\ promptPos = {} /\ ~Printed(CatalogHeaderLine)
          /\ method # Unset => method = argv[2]
     /\ Cardinality(promptPos) <= 1
     /\ \A j \in catPos : \E i \in 1..14 :
          /\ out[j] = <<"catalog", QUANTIZATION_METHODS[i][1], QUANTIZATION_METHODS[i][2]>>
          /\ j > i /\ out[j - i] = CatalogHeaderLine
     /\ \A p \in promptPos :
          /\ p > 15
          /\ catPos = (p - 14)..(p - 1)
     /\ (method # Unset /\ Len(argv) <= 1) => promptPos # {}
     /\ pc \in {"quantize", "quantize_wait", "done"} =>
          /\ method \in Methods
          /\ EndsWith(quantize_command, <<" ">> \o method)

C9_Witness ==
  /\ pc = "done"
  /\ Len(argv) = 1
  /\ method = <<"q">>
  /\ Cardinality({j \in 1..Len(out) : out[j][1] = "catalog"}) = 14
  /\ quantArgv[Len(quantArgv)] = <<"q">>

\* ---------------------------------------------------------------------
\* C10: the clone wait loop never reaches a state in which the child is
\* blocked writing to the full stdout pipe, which nothing reads, while the
\* parent is blocked waiting for another stderr line.
C10_NoCloneDeadlock ==
  ~ ( /\ pc = "clone_loop" /\ "clone" \in alive
      /\ script # <<>> /\ Head(script) = "stdout" /\ outBuf = PipeCap
      /\ errBuf = 0 )

====
